---- MODULE Spec2Model ----
(***************************************************************************)
(* Model of src/utils/pic_process/pic_groundtruth.py:                      *)
(*   PicGroundTruth.generate_stroke_so2  (lesion simulation on a vessel    *)
(*   mask: placement, per-lesion distance field, value synthesis,          *)
(*   compositing, clamping, vessel gating, persistence)                    *)
(*   PicGroundTruth.batch_process        (directory driver)                *)
(*                                                                         *)
(* Rasters are functions from pixels <<x, y>> to values.  The float32      *)
(* signal raster is held in fixed point: a value v is stored as the        *)
(* integer v * Scale.  Distances are compared through their squares, and   *)
(* the one place the code needs the distance itself (the penumbra          *)
(* gradient) uses the floor of Scale * sqrt(d2).                           *)
(***************************************************************************)
EXTENDS Integers, Sequences, FiniteSets, TLC

\* ------------------------------------------------------------------ bounds
\* Width of the masks the model decodes (their height is 2).
MaxDim == 3
\* Largest count_per_image the batch driver is run with.
MaxCount == 2

\* Fixed-point resolution of the float32 signal raster (np.float32, line 62).
Scale == 2 ^ 10

\* for _ in range(50)  (line 112)
MaxAttempts == 50

\* ------------------------------------------------------------- arithmetic
Min2(a, b) == IF a <= b THEN a ELSE b
Max2(a, b) == IF a >= b THEN a ELSE b

RECURSIVE ISqrtIn(_, _, _)
\* floor(sqrt(n)) by bisection on lo..hi, lo*lo <= n < (hi+1)*(hi+1)
ISqrtIn(n, lo, hi) ==
    IF lo >= hi THEN lo
    ELSE LET mid == (lo + hi + 1) \div 2
         IN  IF mid * mid <= n THEN ISqrtIn(n, mid, hi) ELSE ISqrtIn(n, lo, mid - 1)

\* np.sqrt of an integer, in fixed point: floor(Scale * sqrt(d2))
SqrtScaled(d2) == ISqrtIn(d2 * Scale * Scale, 0, (d2 + 1) * Scale)

\* (x - cx)**2 + (y - cy)**2
Dist2(p, c) == (p[1] - c[1]) * (p[1] - c[1]) + (p[2] - c[2]) * (p[2] - c[2])

\* np.sqrt(d2) <= r   for an integer r
DistLe(d2, r) == r >= 0 /\ d2 <= r * r
\* np.sqrt(d2) >= m   for an integer m
DistGe(d2, m) == m <= 0 \/ d2 >= m * m

\* random.randint(lo, hi): the draws the model follows are the two ends
DrawSet(range) == {range[1], range[2]}

\* ------------------------------------------------------------------ masks
Pixels(h, w) == (0 .. w - 1) \X (0 .. h - 1)

\* intensities on both sides of the two thresholds (10 and 20)
MaskVals == <<0, 255, 10, 11, 20, 21>>

White(h, w) == [h |-> h, w |-> w, px |-> [p \in Pixels(h, w) |-> 255]]
Black(h, w) == [h |-> h, w |-> w, px |-> [p \in Pixels(h, w) |-> 0]]
Mixed(h, w) == [h |-> h, w |-> w,
                px |-> [p \in Pixels(h, w) |-> MaskVals[((p[1] + 3 * p[2]) % 6) + 1]]]

\* what cv2.imread can return for the files of the model: None or a raster
Decoded == {White(2, MaxDim), Black(2, MaxDim), Mixed(2, MaxDim)}

\* ------------------------------------------------------------------ noise
\* np.random.normal draws, fixed point; seed 0 is the all-zero draw
NoiseVals == <<7 * Scale, -(6 * Scale + Scale \div 2), Scale \div 4>>
NoiseAt(seed, salt, p) ==
    IF seed = 0 THEN 0
    ELSE NoiseVals[((p[1] + 2 * p[2] + salt + seed) % 3) + 1]
Seeds == {0, 1}

\* ------------------------------------------------------- generator pieces
\* lines 41-56: defaults of the optional parameters
DefaultMinDist(min_dim) == min_dim \div 6
DefaultCoreRadiusRange(min_dim) == <<min_dim \div 20, min_dim \div 12>>
DefaultPenumbraWidthRange(min_dim) == <<min_dim \div 10, min_dim \div 6>>
DefaultSo2Ranges == [normal |-> <<210, 255>>, penumbra |-> <<110, 160>>, core |-> <<30, 60>>]
DefaultNumLesionsRange == <<1, 3>>

\* the vessel pixels taken with the threshold of the binarization (10)
VesselIndicesAbove10(m) == {p \in Pixels(m.h, m.w) : m.px[p] > 10}

\* line 75: np.where(mask > 20)
VesselIndices(m) == {p \in Pixels(m.h, m.w) : m.px[p] > 20}

\* the binarization with its threshold at 0
VesselBinaryAboveZero(m, p) == IF m.px[p] > 0 THEN 1 ELSE 0

\* line 175: cv2.threshold(mask, 10, 1, THRESH_BINARY)
VesselBinary(m, p) == IF m.px[p] > 10 THEN 1 ELSE 0

\* the vessel path with np.max in place of np.min: far from some center
FarFromSome(p, cs, min_dist) ==
    \E i \in 1 .. Len(cs) : DistGe(Dist2(p, cs[i]), min_dist)

\* lines 95-103: min over the centers of the distance, compared with min_lesion_dist
FarFromAll(p, cs, min_dist) ==
    \A i \in 1 .. Len(cs) : DistGe(Dist2(p, cs[i]), min_dist)

\* lines 118-123: too_close
TooClose(p, cs, min_dist) ==
    \E i \in 1 .. Len(cs) : ~DistGe(Dist2(p, cs[i]), min_dist)

\* the fallback loop with one attempt more
AttemptsOneMore(a) == a >= MaxAttempts + 1

\* line 112: the fallback loop is over
AttemptsExhausted(a) == a >= MaxAttempts

\* the core without its boundary (< in place of <=)
CoreMaskOpen(d2, r_core) == r_core > 0 /\ d2 < r_core * r_core

\* lines 145-146
CoreMask(d2, r_core) == DistLe(d2, r_core)
PenumbraMask(d2, r_core, w_penumbra) ==
    ~DistLe(d2, r_core) /\ DistLe(d2, r_core + w_penumbra)

\* lines 158-162: penumbra_vals + noise, fixed point
PenumbraVal(d2, l, base, noise) ==
    l.val_core * Scale
      + ((SqrtScaled(d2) - l.r_core * Scale) * (base - l.val_core)) \div l.w_penumbra
      + noise

\* the lesion's field with the core left at the normal value
CoreLeftOut(p, l, base, noise) ==
    IF CoreMask(Dist2(p, l.center), l.r_core) THEN base * Scale
    ELSE PenumbraVal(Dist2(p, l.center), l, base, noise)

\* lines 150-162: lesion_so2 at an affected pixel
LesionSo2(p, l, base, noise) ==
    IF CoreMask(Dist2(p, l.center), l.r_core) THEN l.val_core * Scale
    ELSE PenumbraVal(Dist2(p, l.center), l, base, noise)

\* line 166
Affected(p, l) ==
    \/ CoreMask(Dist2(p, l.center), l.r_core)
    \/ PenumbraMask(Dist2(p, l.center), l.r_core, l.w_penumbra)

\* the merge with the lesion's value written over the accumulated one
OverwriteSo2(cur, cand) == cand

\* line 167: np.minimum
MergeSo2(cur, cand) == Min2(cur, cand)

\* the label merge by addition instead of np.maximum
AddLabel(cur, p, l) ==
    IF CoreMask(Dist2(p, l.center), l.r_core) THEN cur + 3
    ELSE IF PenumbraMask(Dist2(p, l.center), l.r_core, l.w_penumbra) THEN cur + 2
    ELSE cur

\* the label merge by assignment instead of np.maximum
OverwriteLabel(cur, p, l) ==
    IF CoreMask(Dist2(p, l.center), l.r_core) THEN 3
    ELSE IF PenumbraMask(Dist2(p, l.center), l.r_core, l.w_penumbra) THEN 2
    ELSE cur

\* lines 170-171: np.maximum(label, 2) on the penumbra, np.maximum(label, 3) on the core
MergeLabel(cur, p, l) ==
    IF CoreMask(Dist2(p, l.center), l.r_core) THEN Max2(cur, 3)
    ELSE IF PenumbraMask(Dist2(p, l.center), l.r_core, l.w_penumbra) THEN Max2(cur, 2)
    ELSE cur

\* line 178: np.clip(final_so2_map, 0, 255)
Clip(v) == Max2(0, Min2(v, 255 * Scale))

\* line 182: astype(np.uint8), truncation and wrap to 8 bits
AsUint8(v) == (v \div Scale) % 256

\* line 178
ClipMap(m, so2) == [p \in Pixels(m.h, m.w) |-> Clip(so2[p])]

\* lines 181-182: final_so2_map * vessel_binary, cast to uint8
FinalImg(m, so2) == [p \in Pixels(m.h, m.w) |-> AsUint8(so2[p] * VesselBinary(m, p))]

\* line 191
GatedLabel(m, lab) == [p \in Pixels(m.h, m.w) |-> lab[p] * VesselBinary(m, p)]


\* ------------------------------------------------------------- file names
\* A file name is a sequence of one-character strings.
Digits == <<"0", "1", "2", "3", "4", "5", "6", "7", "8", "9">>
UpperCase == <<"A", "B", "C", "D", "E", "F", "G", "H", "I", "J", "K", "L", "M",
               "N", "O", "P", "Q", "R", "S", "T", "U", "V", "W", "X", "Y", "Z">>
LowerCase == <<"a", "b", "c", "d", "e", "f", "g", "h", "i", "j", "k", "l", "m",
               "n", "o", "p", "q", "r", "s", "t", "u", "v", "w", "x", "y", "z">>

IndexIn(seq, ch) == CHOOSE i \in 1 .. Len(seq) : seq[i] = ch
IsIn(seq, ch) == \E i \in 1 .. Len(seq) : seq[i] = ch

\* code point of a character
Ord(ch) ==
    IF ch = "." THEN 46
    ELSE IF IsIn(Digits, ch) THEN 47 + IndexIn(Digits, ch)
    ELSE IF IsIn(UpperCase, ch) THEN 64 + IndexIn(UpperCase, ch)
    ELSE IF ch = "_" THEN 95
    ELSE 96 + IndexIn(LowerCase, ch)

\* str.lower()
LowerCh(ch) == IF IsIn(UpperCase, ch) THEN LowerCase[IndexIn(UpperCase, ch)] ELSE ch
Lower(s) == [i \in 1 .. Len(s) |-> LowerCh(s[i])]

\* str.endswith(suf)
EndsWith(s, suf) ==
    /\ Len(suf) <= Len(s)
    /\ SubSeq(s, Len(s) - Len(suf) + 1, Len(s)) = suf

\* line 211: f.lower().endswith(('.png', '.jpg', '.jpeg'))
Recognized(f) ==
    \/ EndsWith(Lower(f), <<".", "p", "n", "g">>)
    \/ EndsWith(Lower(f), <<".", "j", "p", "g">>)
    \/ EndsWith(Lower(f), <<".", "j", "p", "e", "g">>)

\* string comparison used by sorted()
LexLess(a, b) ==
    \E k \in 1 .. Len(b) :
        /\ \A j \in 1 .. k - 1 : j <= Len(a) /\ a[j] = b[j]
        /\ \/ k = Len(a) + 1
           \/ k <= Len(a) /\ Ord(a[k]) < Ord(b[k])

RECURSIVE Sorted(_)
\* line 210: sorted(glob.glob(...))
Sorted(S) ==
    IF S = {} THEN <<>>
    ELSE LET m == CHOOSE x \in S : \A y \in S \ {x} : LexLess(x, y)
         IN  <<m>> \o Sorted(S \ {m})

\* line 211: the list comprehension keeps the order
SelectRecognized(fs) == SelectSeq(fs, Recognized)

\* line 210-211
ImageFiles(names) == SelectRecognized(Sorted(names))

\* line 216: os.path.splitext(os.path.basename(img_path))[0]
BaseName(f) ==
    LET dots == {i \in 1 .. Len(f) : f[i] = "." /\ \E j \in 1 .. i - 1 : f[j] # "."}
    IN  IF dots = {} THEN f
        ELSE SubSeq(f, 1, (CHOOSE i \in dots : \A j \in dots : j <= i) - 1)

RECURSIVE Decimal(_)
Decimal(n) == IF n < 10 THEN <<Digits[n + 1]>> ELSE Decimal(n \div 10) \o <<Digits[(n % 10) + 1]>>

\* format spec 02d
Fmt02d(n) == IF n < 10 THEN <<"0">> \o Decimal(n) ELSE Decimal(n)

\* line 220: suffix of variant i (0-based)
Suffix(i, count) == IF count > 1 THEN <<"_", "s", "i", "m", "_">> \o Fmt02d(i + 1) ELSE <<>>

DotPng == <<".", "p", "n", "g">>
UnderLabel == <<"_", "l", "a", "b", "e", "l">>

\* the label name without the variant's suffix
OutLabelNameNoSuffix(f, i, count) == BaseName(f) \o UnderLabel \o DotPng

\* line 222
OutImgName(f, i, count) == BaseName(f) \o Suffix(i, count) \o DotPng
\* line 227
OutLabelName(f, i, count) == BaseName(f) \o Suffix(i, count) \o UnderLabel \o DotPng


\* ------------------------------------------------------------------ state
\* An optional value is <<>> (None) or <<v>>.
Some(v) == <<v>>
NoVal == <<>>

VARIABLES
    disk,               \* input files: name -> <<>> (undecodable) or <<raster>>
    unwritable,         \* output paths <<directory, name>> on which cv2.imwrite fails
    out_img,            \* names present in the signal output directory
    out_label,          \* names present in the label output directory
    \* batch_process
    bpc, count_per_image, output_label_dir, image_files, fi, vi,
    called,             \* the mask paths generate_stroke_so2 was called with, in order
    \* generate_stroke_so2
    gpc, args, ret,
    mask, par, base_normal_so2, seed, final_so2_map, final_label_map,
    num_lesions, centers, iter, attempt, lesions, final_img

env == <<disk, unwritable>>
outs == <<out_img, out_label>>
batch == <<bpc, count_per_image, output_label_dir, image_files, fi, vi, called>>
maps == <<base_normal_so2, seed, final_so2_map, final_label_map>>
placing == <<num_lesions, centers, iter, attempt>>
locals == <<mask, par, maps, placing, lesions>>
vars == <<env, outs, batch, gpc, args, ret, locals, final_img>>

\* the frame of a call before its first statement
FreshLocals ==
    /\ mask' = NoVal /\ par' = NoVal
    /\ base_normal_so2' = 0 /\ seed' = 0
    /\ final_so2_map' = <<>> /\ final_label_map' = <<>>
    /\ num_lesions' = 0 /\ centers' = <<>> /\ iter' = 0 /\ attempt' = 0
    /\ lesions' = <<>>

InitLocals ==
    /\ mask = NoVal /\ par = NoVal
    /\ base_normal_so2 = 0 /\ seed = 0
    /\ final_so2_map = <<>> /\ final_label_map = <<>>
    /\ num_lesions = 0 /\ centers = <<>> /\ iter = 0 /\ attempt = 0
    /\ lesions = <<>>
    /\ final_img = <<>>

M == mask[1]
MinDim == Min2(M.h, M.w)

\* --------------------------------------------------- generate_stroke_so2
\* lines 32-56: read the mask, fill in the defaults
ReadMask ==
    /\ gpc = "read"
    /\ IF args.mask_path \notin DOMAIN disk \/ disk[args.mask_path] = NoVal
       THEN /\ gpc' = "returned"
            /\ ret' = NoVal
            /\ UNCHANGED <<mask, par>>
       ELSE LET m == disk[args.mask_path][1]
                md == Min2(m.h, m.w)
            IN  /\ mask' = Some(m)
                /\ par' = [min_lesion_dist |->
                               IF args.min_lesion_dist = NoVal THEN DefaultMinDist(md)
                               ELSE args.min_lesion_dist[1],
                           core_radius_range |->
                               IF args.core_radius_range = NoVal
                               THEN DefaultCoreRadiusRange(md)
                               ELSE args.core_radius_range,
                           penumbra_width_range |->
                               IF args.penumbra_width_range = NoVal
                               THEN DefaultPenumbraWidthRange(md)
                               ELSE args.penumbra_width_range,
                           so2_ranges |->
                               IF args.so2_ranges = NoVal THEN DefaultSo2Ranges
                               ELSE args.so2_ranges[1]]
                /\ gpc' = "init"
                /\ UNCHANGED ret
    /\ UNCHANGED <<env, outs, batch, args, maps, placing, lesions, final_img>>

\* lines 60-71: baseline signal with noise, label 1 everywhere, lesion count
InitMaps ==
    /\ gpc = "init"
    /\ \E b \in DrawSet(par.so2_ranges.normal), s \in Seeds,
          k \in args.num_lesions_range[1] .. args.num_lesions_range[2] :
        /\ base_normal_so2' = b
        /\ seed' = s
        /\ final_so2_map' = [p \in Pixels(M.h, M.w) |-> b * Scale + NoiseAt(s, 0, p)]
        /\ final_label_map' = [p \in Pixels(M.h, M.w) |-> 1]
        /\ num_lesions' = k
    /\ gpc' = "first"
    /\ UNCHANGED <<env, outs, batch, args, ret, mask, par, centers, iter, attempt, lesions,
                   final_img>>

\* line 88: position after i iterations of  for _ in range(num_lesions - 1)
LoopPc(i, k) == IF i < k - 1 THEN "next" ELSE "lesions"

\* lines 79-85: the first center
PlaceFirst ==
    /\ gpc = "first"
    /\ IF VesselIndices(M) # {}
       THEN \E p \in VesselIndices(M) : centers' = <<p>>
       ELSE LET margin == MinDim \div 5
            IN  \E cx \in margin .. M.w - margin, cy \in margin .. M.h - margin :
                    centers' = <<<<cx, cy>>>>
    /\ iter' = 0
    /\ attempt' = 0
    /\ gpc' = LoopPc(0, num_lesions)
    /\ UNCHANGED <<env, outs, batch, args, ret, mask, par, maps, num_lesions, lesions,
                   final_img>>

\* lines 88-108: one further center from the vessel pixels far enough from all
\* centers; without one, the fallback (line 111) is entered
PlaceNext ==
    /\ gpc = "next"
    /\ LET valid == {p \in VesselIndices(M) : FarFromAll(p, centers, par.min_lesion_dist)}
       IN  IF valid # {}
           THEN /\ \E p \in valid : centers' = Append(centers, p)
                /\ iter' = iter + 1
                /\ gpc' = LoopPc(iter + 1, num_lesions)
           ELSE /\ gpc' = "fallback"
                /\ UNCHANGED <<centers, iter>>
    /\ attempt' = 0
    /\ UNCHANGED <<env, outs, batch, args, ret, mask, par, maps, num_lesions, lesions,
                   final_img>>

\* lines 112-130: one attempt of the rejection sampling, or its end after 50
FallbackAttempt ==
    /\ gpc = "fallback"
    /\ IF AttemptsExhausted(attempt)
       THEN /\ iter' = iter + 1
            /\ gpc' = LoopPc(iter + 1, num_lesions)
            /\ attempt' = 0
            /\ UNCHANGED centers
       ELSE LET margin == MinDim \div 10
            IN  \E cx \in margin .. M.w - margin, cy \in margin .. M.h - margin :
                    IF TooClose(<<cx, cy>>, centers, par.min_lesion_dist)
                    THEN /\ attempt' = attempt + 1
                         /\ UNCHANGED <<centers, iter, gpc>>
                    ELSE /\ centers' = Append(centers, <<cx, cy>>)
                         /\ iter' = iter + 1
                         /\ gpc' = LoopPc(iter + 1, num_lesions)
                         /\ attempt' = 0
    /\ UNCHANGED <<env, outs, batch, args, ret, mask, par, maps, num_lesions, lesions,
                   final_img>>

\* lines 135-171: one iteration of  for center in centers
ApplyLesion ==
    /\ gpc = "lesions"
    /\ Len(lesions) < Len(centers)
    /\ \E r \in DrawSet(par.core_radius_range),
          wp \in DrawSet(par.penumbra_width_range),
          v \in DrawSet(par.so2_ranges.core) :
        LET li == Len(lesions) + 1
            l == [center |-> centers[li], r_core |-> r, w_penumbra |-> wp, val_core |-> v]
        IN  /\ lesions' = Append(lesions, l)
            /\ final_so2_map' =
                 [p \in Pixels(M.h, M.w) |->
                    IF Affected(p, l)
                    THEN MergeSo2(final_so2_map[p],
                                  LesionSo2(p, l, base_normal_so2, NoiseAt(seed, li, p)))
                    ELSE final_so2_map[p]]
            /\ final_label_map' =
                 [p \in Pixels(M.h, M.w) |-> MergeLabel(final_label_map[p], p, l)]
            /\ gpc' = IF li = Len(centers) THEN "post" ELSE "lesions"
    /\ UNCHANGED <<env, outs, batch, args, ret, mask, par, base_normal_so2, seed, placing,
                   final_img>>

\* lines 185-186, 193-194: os.makedirs raises when the directory cannot be made
MakedirsOutcomes == {"ok", "raises"}

\* lines 175-186: clamp, gate, cast, os.makedirs, cv2.imwrite.  cv2.imwrite
\* returns False when the file cannot be written; the code does not look at it.
SaveImage ==
    /\ gpc = "post"
    /\ \E io \in MakedirsOutcomes :
        IF io = "raises"
        THEN /\ gpc' = "raised"
             /\ FreshLocals
             /\ final_img' = <<>>
             /\ UNCHANGED outs
        ELSE /\ gpc' = "label"
             /\ final_so2_map' = ClipMap(M, final_so2_map)
             /\ final_img' = FinalImg(M, ClipMap(M, final_so2_map))
             /\ out_img' = IF <<"img", args.output_img_path>> \in unwritable
                           THEN out_img
                           ELSE out_img \cup {args.output_img_path}
             /\ UNCHANGED <<out_label, mask, par, base_normal_so2, seed, final_label_map,
                            placing, lesions>>
    /\ UNCHANGED <<env, batch, args, ret>>

\* lines 189-194: the optional label raster
SaveLabel ==
    /\ gpc = "label"
    /\ IF args.output_label_path = NoVal
       THEN /\ gpc' = "return"
            /\ UNCHANGED <<outs, locals, final_img>>
       ELSE \E io \in MakedirsOutcomes :
            IF io = "raises"
            THEN /\ gpc' = "raised"
                 /\ FreshLocals
                 /\ final_img' = <<>>
                 /\ UNCHANGED outs
            ELSE /\ gpc' = "return"
                 /\ final_label_map' = GatedLabel(M, final_label_map)
                 /\ out_label' = IF <<"label", args.output_label_path[1]>> \in unwritable
                                 THEN out_label
                                 ELSE out_label \cup {args.output_label_path[1]}
                 /\ UNCHANGED <<out_img, final_img, mask, par, base_normal_so2, seed,
                                final_so2_map, placing, lesions>>
    /\ UNCHANGED <<env, batch, args, ret>>

\* lines 196-199: the returned dictionary; the frame of the call ends
Return ==
    /\ gpc = "return"
    /\ gpc' = "returned"
    /\ ret' = Some([centers |-> centers, num_lesions |-> num_lesions])
    /\ FreshLocals
    /\ final_img' = <<>>
    /\ UNCHANGED <<env, outs, batch, args>>

Generate ==
    \/ ReadMask \/ InitMaps \/ PlaceFirst \/ PlaceNext \/ FallbackAttempt
    \/ ApplyLesion \/ SaveImage \/ SaveLabel \/ Return


\* ---------------------------------------------------------- batch_process
\* lines 210-211
BatchStart ==
    /\ bpc = "start"
    /\ image_files' = ImageFiles(DOMAIN disk)
    /\ fi' = 1
    /\ vi' = 0
    /\ bpc' = IF ImageFiles(DOMAIN disk) = <<>> THEN "done" ELSE "loop"
    /\ UNCHANGED called
    /\ UNCHANGED <<env, outs, count_per_image, output_label_dir, gpc, args, ret, locals,
                   final_img>>

\* lines 216-231: build the paths of unit (fi, vi) and call generate_stroke_so2
\* with every optional parameter left to its default
BatchCall ==
    /\ bpc = "loop"
    /\ gpc = "idle"
    /\ args' = [mask_path |-> image_files[fi],
                output_img_path |-> OutImgName(image_files[fi], vi, count_per_image),
                output_label_path |->
                    IF output_label_dir
                    THEN Some(OutLabelName(image_files[fi], vi, count_per_image))
                    ELSE NoVal,
                num_lesions_range |-> DefaultNumLesionsRange,
                min_lesion_dist |-> NoVal,
                core_radius_range |-> NoVal,
                penumbra_width_range |-> NoVal,
                so2_ranges |-> NoVal]
    /\ gpc' = "read"
    /\ bpc' = "in_call"
    /\ called' = Append(called, image_files[fi])
    /\ UNCHANGED <<env, outs, count_per_image, output_label_dir, image_files, fi, vi,
                   ret, locals, final_img>>

\* the loops ended by a call that returned None
StopOnNone(r, more) == IF more /\ r # NoVal THEN "loop" ELSE "done"

\* lines 215-231: the value the call returned is dropped; the loops go on while
\* units are left
AfterCall(r, more) == IF more THEN "loop" ELSE "done"

\* lines 215, 218: the call returned; next variant, next file, or the end
BatchResume ==
    /\ bpc = "in_call"
    /\ gpc = "returned"
    /\ gpc' = "idle"
    /\ ret' = NoVal
    /\ UNCHANGED <<locals, final_img>>
    /\ IF vi + 1 < count_per_image
       THEN /\ vi' = vi + 1
            /\ bpc' = AfterCall(ret, TRUE)
            /\ UNCHANGED fi
       ELSE /\ vi' = 0
            /\ fi' = fi + 1
            /\ bpc' = AfterCall(ret, fi + 1 <= Len(image_files))
    /\ UNCHANGED called
    /\ UNCHANGED <<env, outs, count_per_image, output_label_dir, image_files, args>>

\* line 231: nothing catches an exception of the call; it leaves batch_process
BatchRaise ==
    /\ bpc = "in_call"
    /\ gpc = "raised"
    /\ bpc' = "raised"
    /\ gpc' = "idle"
    /\ UNCHANGED called
    /\ UNCHANGED <<env, outs, count_per_image, output_label_dir, image_files, fi, vi,
                   args, ret, locals, final_img>>

\* ----------------------------------------------------------------- inputs
Name_m == <<"m", ".", "p", "n", "g">>
Name_s == <<"s", ".", "p", "n", "g">>
Name_l == <<"l", ".", "p", "n", "g">>

\* arguments of a direct call (lines 14-17); the label path is added by Init
DefaultArgs ==
    [num_lesions_range |-> DefaultNumLesionsRange, min_lesion_dist |-> NoVal,
     core_radius_range |-> NoVal, penumbra_width_range |-> NoVal, so2_ranges |-> NoVal]
\* one lesion, fixed core and normal values
OneLesionArgs ==
    [num_lesions_range |-> <<1, 1>>, min_lesion_dist |-> NoVal,
     core_radius_range |-> <<1, 1>>, penumbra_width_range |-> <<1, 2>>,
     so2_ranges |-> Some([normal |-> <<250, 250>>, penumbra |-> <<110, 160>>,
                          core |-> <<40, 40>>])]
\* two lesions that may overlap, wide value ranges
OverlapArgs ==
    [num_lesions_range |-> <<2, 2>>, min_lesion_dist |-> Some(1),
     core_radius_range |-> <<0, 1>>, penumbra_width_range |-> <<1, 1>>,
     so2_ranges |-> Some([normal |-> <<3, 255>>, penumbra |-> <<110, 160>>,
                          core |-> <<0, 60>>])]
\* a separation some placements satisfy, and one none does
FarArgs(d) ==
    [num_lesions_range |-> DefaultNumLesionsRange, min_lesion_dist |-> Some(d),
     core_radius_range |-> <<0, 0>>, penumbra_width_range |-> <<1, 1>>,
     so2_ranges |-> NoVal]

CallArgs == {DefaultArgs, OneLesionArgs, OverlapArgs, FarArgs(2), FarArgs(100)}

\* the calls the model follows: a mask without any vessel pixel draws its
\* centers from the whole raster, and is followed for the smaller argument sets
Calls ==
    {c \in CallArgs \X ({NoVal} \cup {Some(m) : m \in Decoded}) :
        c[2] = Some(Black(2, MaxDim)) => c[1] \in {OneLesionArgs, FarArgs(2), FarArgs(100)}}

WithPaths(a, label) ==
    [mask_path |-> Name_m, output_img_path |-> Name_s, output_label_path |-> label,
     num_lesions_range |-> a.num_lesions_range, min_lesion_dist |-> a.min_lesion_dist,
     core_radius_range |-> a.core_radius_range,
     penumbra_width_range |-> a.penumbra_width_range, so2_ranges |-> a.so2_ranges]

\* output_label_path: given, or left out (followed for the one-lesion calls)
LabelPaths(a) == IF a = OneLesionArgs THEN {NoVal, Some(Name_l)} ELSE {Some(Name_l)}

\* paths cv2.imwrite cannot write (followed for the one-lesion calls)
Unwritables(a) ==
    IF a = OneLesionArgs THEN {{}, {<<"img", Name_s>>}, {<<"label", Name_l>>}} ELSE {{}}

NoBatch ==
    /\ bpc = "off" /\ count_per_image = 1 /\ output_label_dir = FALSE
    /\ image_files = <<>> /\ fi = 0 /\ vi = 0 /\ called = <<>>

NoOutput ==
    /\ out_img = {} /\ out_label = {}

\* a direct call of generate_stroke_so2 (as test_single_generate, line 235)
Init ==
    /\ \E c \in Calls : \E label \in LabelPaths(c[1]) :
        /\ disk = [f \in {Name_m} |-> c[2]]
        /\ args = WithPaths(c[1], label)
        /\ unwritable \in Unwritables(c[1])
    /\ NoOutput
    /\ NoBatch
    /\ gpc = "read"
    /\ ret = NoVal
    /\ InitLocals

Next == Generate

Spec == Init /\ [][Next]_vars

\* the interpreter runs the call to its end
FairSpec == Spec /\ WF_vars(Next)

\* the directories batch_process is run on
Name_a_png == <<"a", ".", "p", "n", "g">>
Name_a_jpg == <<"a", ".", "j", "p", "g">>
Name_B_PNG == <<"B", ".", "P", "N", "G">>
Name_c_txt == <<"c", ".", "t", "x", "t">>
Name_d_jpeg == <<"d", ".", "j", "p", "e", "g">>

\* 1x1 masks: a vessel pixel, a fainter vessel pixel, no vessel pixel
Dot(v) == [h |-> 1, w |-> 1, px |-> [p \in Pixels(1, 1) |-> v]]

\* the directories batch_process is run on (name :> content)
Directories ==
    { Name_a_png :> Some(Dot(255)) @@ Name_B_PNG :> Some(Dot(255)) @@ Name_d_jpeg :> Some(Dot(255)),
      Name_a_png :> Some(Dot(21)) @@ Name_B_PNG :> Some(Dot(255)) @@ Name_d_jpeg :> Some(Dot(21)),
      Name_a_png :> Some(Dot(255)) @@ Name_B_PNG :> NoVal @@ Name_d_jpeg :> Some(Dot(255)),
      Name_a_png :> Some(Dot(255)) @@ Name_B_PNG :> NoVal @@ Name_c_txt :> Some(Dot(255)),
      Name_a_jpg :> Some(Dot(255)) @@ Name_a_png :> Some(Dot(21)),
      Name_c_txt :> NoVal,
      Name_d_jpeg :> Some(Dot(0)) }

InitBatch ==
    /\ disk \in Directories
    /\ unwritable \in {{}, {<<"img", OutImgName(Name_a_png, 0, 1)>>}}
    /\ NoOutput
    /\ bpc = "start"
    /\ count_per_image \in 1 .. MaxCount
    /\ output_label_dir \in BOOLEAN
    /\ image_files = <<>> /\ fi = 0 /\ vi = 0 /\ called = <<>>
    /\ gpc = "idle"
    /\ args = WithPaths(DefaultArgs, NoVal)
    /\ ret = NoVal
    /\ InitLocals

NextBatch == Generate \/ BatchStart \/ BatchCall \/ BatchResume \/ BatchRaise

BatchSpec == InitBatch /\ [][NextBatch]_vars


\* ================================================================= claims
InCall == par # NoVal
Px == Pixels(M.h, M.w)
LabelGiven == args.output_label_path # NoVal

\* core and penumbra of a lesion, from the squared distance
InCore(p, l) == Dist2(p, l.center) <= l.r_core * l.r_core
InPenumbra(p, l) ==
    /\ Dist2(p, l.center) > l.r_core * l.r_core
    /\ Dist2(p, l.center) <= (l.r_core + l.w_penumbra) * (l.r_core + l.w_penumbra)

\* C1: every pixel of the signal raster handed to cv2.imwrite is an integer in
\* 0..255 and every pixel of the label raster handed to cv2.imwrite is in
\* {0,1,2,3}, for every mask and every lesion configuration.
C1_OutputRanges ==
    /\ gpc \in {"label", "return"} =>
         /\ DOMAIN final_img = Px
         /\ \A p \in Px : final_img[p] \in 0 .. 255
    /\ (gpc = "return" /\ LabelGiven) =>
         /\ DOMAIN final_label_map = Px
         /\ \A p \in Px : final_label_map[p] \in {0, 1, 2, 3}

\* a call with noise that wrote a label raster holding 0 and 3 and a signal
\* raster holding both ends of the range, one of them from clamping
C1_Witness ==
    /\ gpc = "return" /\ LabelGiven /\ seed # 0 /\ Len(lesions) >= 2
    /\ \E p, q \in Px : final_label_map[p] = 0 /\ final_label_map[q] = 3
    /\ \E p, q \in Px : final_img[p] = 0 /\ final_img[q] = 255
                        /\ base_normal_so2 * Scale + NoiseAt(seed, 0, q) > 255 * Scale

\* C2: at every pixel whose mask intensity is not above 10, the written signal
\* is 0 and the written label is 0, also inside the core or penumbra of a lesion.
C2_BackgroundZero ==
    /\ gpc \in {"label", "return"} =>
         \A p \in Px : M.px[p] <= 10 => final_img[p] = 0
    /\ (gpc = "return" /\ LabelGiven) =>
         \A p \in Px : M.px[p] <= 10 => final_label_map[p] = 0

\* a written pair of rasters with a background pixel (intensity 10) inside the
\* core of a lesion and a background pixel inside a penumbra, next to vessel pixels
C2_Witness ==
    /\ gpc = "return" /\ LabelGiven
    /\ \E p, q \in Px : \E i, j \in 1 .. Len(lesions) :
         /\ M.px[p] = 10 /\ InCore(p, lesions[i])
         /\ M.px[q] <= 10 /\ InPenumbra(q, lesions[j])
         /\ final_img[p] = 0 /\ final_label_map[p] = 0
    /\ \E p \in Px : M.px[p] > 10 /\ final_img[p] > 0 /\ final_label_map[p] > 0

\* C3: any two accepted centers are at Euclidean distance >= min_lesion_dist,
\* at every point of the placement and in the list that is returned.
C3_Separation ==
    InCall =>
      \A i, j \in 1 .. Len(centers) :
        i < j => \/ par.min_lesion_dist <= 0
                 \/ Dist2(centers[i], centers[j])
                      >= par.min_lesion_dist * par.min_lesion_dist

\* three centers, the second from the vessel pixels and the third from the
\* fallback, under a positive separation
C3_Witness ==
    /\ gpc = "return" /\ Len(centers) = 3 /\ par.min_lesion_dist = 2
    /\ centers[2] \in VesselIndices(M)
    /\ centers[3] \notin VesselIndices(M)


\* the whole-image baseline (lines 60-64) and the lesions' candidates at a pixel
Baseline(p) == base_normal_so2 * Scale + NoiseAt(seed, 0, p)
Covering(p) == {i \in 1 .. Len(lesions) : InCore(p, lesions[i]) \/ InPenumbra(p, lesions[i])}
CandSo2(p, i) == LesionSo2(p, lesions[i], base_normal_so2, NoiseAt(seed, i, p))
CandLabel(p, i) == IF InCore(p, lesions[i]) THEN 3 ELSE 2
SetMin(S) == CHOOSE x \in S : \A y \in S : x <= y
SetMax(S) == CHOOSE x \in S : \A y \in S : x >= y

C4_Composite ==
    gpc \in {"lesions", "post"} =>
      \A p \in Px :
        /\ final_so2_map[p] = SetMin({Baseline(p)} \cup {CandSo2(p, i) : i \in Covering(p)})
        /\ final_label_map[p] = SetMax({1} \cup {CandLabel(p, i) : i \in Covering(p)})

C4_Outside ==
    (gpc = "lesions" /\ Len(lesions') = Len(lesions) + 1) =>
      \A p \in Px :
        ~(InCore(p, lesions'[Len(lesions')]) \/ InPenumbra(p, lesions'[Len(lesions')])) =>
          /\ final_so2_map'[p] = final_so2_map[p]
          /\ final_label_map'[p] = final_label_map[p]

\* C4: before clamping and gating, the signal at every pixel is the minimum of
\* the baseline and the candidate values of the lesions covering the pixel, and
\* the label the maximum of 1 and their candidate labels; applying a lesion
\* leaves signal and label unchanged outside its core and penumbra.
C4_Compositing == [](C4_Composite) /\ [][C4_Outside]_vars

\* two lesions with different core values whose cores share a pixel, and a
\* pixel neither covers
C4_Witness ==
    /\ gpc = "post" /\ Len(lesions) = 2
    /\ lesions[1].val_core # lesions[2].val_core
    /\ \E p, q \in Px :
         /\ InCore(p, lesions[1]) /\ InCore(p, lesions[2])
         /\ final_so2_map[p] = Min2(lesions[1].val_core, lesions[2].val_core) * Scale
         /\ final_label_map[p] = 3
         /\ Covering(q) = {}
    /\ \E p \in Px : InCore(p, lesions[1]) /\ InPenumbra(p, lesions[2])

\* the case of C5: one lesion, no noise, every pixel a vessel pixel, c < b
C5_Case ==
    /\ gpc = "post" /\ Len(lesions) = 1 /\ seed = 0
    /\ \A p \in Px : M.px[p] > 10
    /\ lesions[1].val_core < base_normal_so2

C5_Shape(strict) ==
    C5_Case =>
      LET l == lesions[1]
          c == l.val_core * Scale
          b == base_normal_so2 * Scale
          outer == (l.r_core + l.w_penumbra) * (l.r_core + l.w_penumbra)
      IN  \A p \in Px :
            IF InCore(p, l)
            THEN final_label_map[p] = 3 /\ final_so2_map[p] = c
            ELSE IF InPenumbra(p, l)
            THEN /\ final_label_map[p] = 2
                 /\ c < final_so2_map[p]
                 /\ IF strict THEN final_so2_map[p] < b
                    ELSE /\ final_so2_map[p] <= b
                         /\ final_so2_map[p] = b <=> Dist2(p, l.center) = outer
                 /\ \A q \in Px :
                      (InPenumbra(q, l) /\ Dist2(p, l.center) < Dist2(q, l.center))
                        => final_so2_map[p] < final_so2_map[q]
            ELSE final_label_map[p] = 1 /\ final_so2_map[p] = b

\* C5 as claimed: the penumbra signal is strictly between c and b.
C5_Claimed == C5_Shape(TRUE)

\* C5 (amended): with no noise, one lesion on an all-vessel mask gives label 3
\* and signal c within distance r, label 2 and a signal in (c, b] that strictly
\* increases with the distance and is b exactly at distance r+p on the
\* penumbra, and label 1 and signal b elsewhere.
C5_SingleLesion == C5_Shape(FALSE)

\* a lesion with a core pixel off the center, two penumbra pixels at different
\* distances, one of them at distance r+p, and a pixel outside
C5_Witness ==
    /\ C5_Case
    /\ lesions[1].r_core = 1 /\ lesions[1].w_penumbra = 1
    /\ \E p, q, u, v \in Px :
         /\ InCore(p, lesions[1]) /\ p # lesions[1].center
         /\ InPenumbra(q, lesions[1]) /\ InPenumbra(u, lesions[1])
         /\ Dist2(q, lesions[1].center) < Dist2(u, lesions[1].center)
         /\ Dist2(u, lesions[1].center) = 4
         /\ final_so2_map[q] < final_so2_map[u]
         /\ ~InCore(v, lesions[1]) /\ ~InPenumbra(v, lesions[1])

\* C6: with no noise, a vessel pixel whose final label is 3 has a final signal
\* no greater than the core value of a lesion whose core contains it.
C6_CoreSignal ==
    (gpc \in {"label", "return"} /\ seed = 0) =>
      \A p \in Px :
        (M.px[p] > 10 /\ final_label_map[p] = 3) =>
          \E i \in 1 .. Len(lesions) :
            InCore(p, lesions[i]) /\ final_img[p] <= lesions[i].val_core

\* a vessel pixel in the core of one lesion and the penumbra of another,
\* labelled 3, whose written signal is that core's value
C6_Witness ==
    /\ gpc = "return" /\ seed = 0 /\ Len(lesions) = 2
    /\ \E p \in Px : \E i, j \in 1 .. 2 :
         /\ M.px[p] > 10 /\ final_label_map[p] = 3
         /\ InCore(p, lesions[i]) /\ InPenumbra(p, lesions[j])
         /\ final_img[p] = lesions[i].val_core
         /\ lesions[i].val_core > 0


\* ------------------------------------------------------- batch_process claims
RecognizedFiles == {f \in DOMAIN disk : Recognized(f)}
NFiles == Cardinality(RecognizedFiles)
AllDecodable == \A f \in RecognizedFiles : disk[f] # NoVal
DistinctBaseNames ==
    \A f, g \in RecognizedFiles : f # g => BaseName(f) # BaseName(g)
NoWriteFails ==
    \A f \in RecognizedFiles : \A i \in 0 .. count_per_image - 1 :
        /\ <<"img", OutImgName(f, i, count_per_image)>> \notin unwritable
        /\ <<"label", OutLabelName(f, i, count_per_image)>> \notin unwritable

\* name with '_label' put before its last four characters ('.png')
InsertLabel(n) ==
    SubSeq(n, 1, Len(n) - 4) \o <<"_", "l", "a", "b", "e", "l">> \o SubSeq(n, Len(n) - 3, Len(n))
\* name ends in '_sim_' two digits '.png'
HasSimSuffix(n) ==
    /\ Len(n) >= 11
    /\ SubSeq(n, Len(n) - 10, Len(n) - 6) = <<"_", "s", "i", "m", "_">>
    /\ IsIn(Digits, n[Len(n) - 5]) /\ IsIn(Digits, n[Len(n) - 4])

C7_Produced ==
    /\ Cardinality(out_img) = NFiles * count_per_image
    /\ Cardinality(out_label) = NFiles * count_per_image
    /\ out_label = {InsertLabel(n) : n \in out_img}
    /\ \A n \in out_img :
         /\ SubSeq(n, Len(n) - 3, Len(n)) = <<".", "p", "n", "g">>
         /\ HasSimSuffix(n) <=> count_per_image > 1

\* C7 as claimed: for N recognized files, whatever they hold.
C7_Claimed == (bpc = "done" /\ output_label_dir) => C7_Produced

\* C7 (amended): over a directory whose N recognized files all decode and have
\* pairwise distinct base names, with every output write succeeding and a label
\* directory configured, batch_process leaves exactly N*c signal files and N*c
\* label files, each label name its signal name with '_label' before '.png',
\* the '_sim_NN' suffix present exactly when c > 1, whatever the masks hold.
C7_FileCount ==
    (bpc = "done" /\ output_label_dir /\ AllDecodable /\ DistinctBaseNames /\ NoWriteFails)
      => C7_Produced

\* three decodable masks, two variants each, six signal and six label files
C7_Witness ==
    /\ bpc = "done" /\ output_label_dir /\ AllDecodable /\ DistinctBaseNames /\ NoWriteFails
    /\ NFiles = 3 /\ count_per_image = 2
    /\ Cardinality(out_img) = 6 /\ Cardinality(out_label) = 6
    /\ \E f \in RecognizedFiles : disk[f] = Some(Dot(21))

Undecodable(f) == f \notin DOMAIN disk \/ disk[f] = NoVal

\* the call on an undecodable mask returns None and writes nothing
C8_ReturnsNone ==
    (gpc = "read" /\ Undecodable(args.mask_path)) =>
      /\ gpc' = "returned" /\ ret' = NoVal
      /\ out_img' = out_img /\ out_label' = out_label
\* the batch goes on after it
C8_GoesOn ==
    (bpc = "in_call" /\ gpc = "returned" /\ ret = NoVal) =>
      /\ bpc' = (IF vi + 1 < count_per_image \/ fi < Len(image_files) THEN "loop" ELSE "done")
      /\ out_img' = out_img /\ out_label' = out_label
\* at the end every recognized file was passed to generate_stroke_so2, each
\* count_per_image times, in sorted order
C8_AllCalled ==
    bpc = "done" =>
      /\ Len(called) = NFiles * count_per_image
      /\ \A f \in RecognizedFiles :
           Cardinality({k \in 1 .. Len(called) : called[k] = f}) = count_per_image
      /\ \A k \in 1 .. Len(called) - 1 :
           called[k] = called[k + 1] \/ LexLess(called[k], called[k + 1])
      /\ \A f \in RecognizedFiles : \A i \in 0 .. count_per_image - 1 :
           (~Undecodable(f)
              /\ <<"img", OutImgName(f, i, count_per_image)>> \notin unwritable)
             => OutImgName(f, i, count_per_image) \in out_img

\* C8: generate_stroke_so2 on an undecodable mask writes neither file and
\* returns None without raising; batch_process skips the file and still calls
\* generate_stroke_so2 on every other recognized file, in sorted name order.
C8_UndecodableSkipped == [][C8_ReturnsNone /\ C8_GoesOn]_vars /\ [](C8_AllCalled)

\* a finished batch whose first file in sorted order was undecodable and whose
\* two other files were processed and written
C8_Witness ==
    /\ bpc = "done" /\ NFiles = 3 /\ Len(called) = 3 * count_per_image
    /\ Undecodable(called[1])
    /\ Cardinality(out_img) = 2 * count_per_image
    /\ \A n \in out_img : \A i \in 0 .. count_per_image - 1 :
         n # OutImgName(called[1], i, count_per_image)

\* C9 as claimed: a write failure of one unit reaches the caller of
\* generate_stroke_so2 (a call that returns its dictionary has written its
\* signal file), and batch_process goes on: when it ends, every recognized file
\* was processed.
C9_WriteFailureContinues ==
    /\ (bpc = "in_call" /\ gpc = "returned" /\ ret # NoVal) => args.output_img_path \in out_img
    /\ bpc \in {"done", "raised"} =>
         \A f \in RecognizedFiles : \E k \in 1 .. Len(called) : called[k] = f

\* --------------------------------------------------------- placement claims
Placing == gpc \in {"first", "next", "fallback"}

\* the attempts of one center never pass 50, and the accepted centers are
\* between one and the number drawn
C10_Bounded ==
    /\ attempt <= MaxAttempts
    /\ gpc \in {"lesions", "post", "label", "return"} =>
         /\ args.num_lesions_range[1] <= num_lesions
         /\ num_lesions <= args.num_lesions_range[2]
         /\ 1 <= Len(centers) /\ Len(centers) <= num_lesions
    /\ (gpc = "returned" /\ ret # NoVal) =>
         /\ 1 <= Len(ret[1].centers)
         /\ Len(ret[1].centers) <= ret[1].num_lesions
\* a placement step raises nothing, keeps the centers accepted so far in their
\* order, and gives up a center after its 50th failed attempt
C10_Step ==
    Placing =>
      /\ gpc' # "raised"
      /\ Len(centers') \in {Len(centers), Len(centers) + 1}
      /\ SubSeq(centers', 1, Len(centers)) = centers
      /\ (gpc = "fallback" /\ attempt = MaxAttempts) =>
           (centers' = centers /\ iter' = iter + 1 /\ gpc' # "fallback")
      /\ (gpc = "fallback" /\ gpc' = "fallback") => attempt' = attempt + 1
PlacementOver == ~Placing /\ gpc # "read" /\ gpc # "init"

\* C10: for every lesion count k >= 1 drawn from the configured range and
\* every min_lesion_dist, placement ends, after at most 50 fallback attempts
\* for each center, without raising, with an ordered list of n accepted centers,
\* 1 <= n <= k; a center whose 50 attempts all fail is left out.
C10_Placement == [](C10_Bounded) /\ [][C10_Step]_vars /\ <>PlacementOver

\* a call that returns fewer centers than it drew, after a center was given up
C10_Witness ==
    /\ gpc = "returned" /\ ret # NoVal
    /\ args.min_lesion_dist = Some(100)
    /\ ret[1].num_lesions = 3 /\ Len(ret[1].centers) = 1

\* C11 as claimed: every accepted center (x, y), from the vessel pixels or
\* from the draw over the whole raster, lies on the raster: 0 <= x < w and
\* 0 <= y < h.
C11_CentersInBounds ==
    mask # NoVal =>
      \A i \in 1 .. Len(centers) :
        /\ 0 <= centers[i][1] /\ centers[i][1] < M.w
        /\ 0 <= centers[i][2] /\ centers[i][2] < M.h

\* C12 as claimed: a lesion drawn under the default core_radius_range and
\* penumbra_width_range has a core radius > 0 and a penumbra width > 0.
C12_PositiveRadii ==
    (mask # NoVal /\ args.core_radius_range = NoVal /\ args.penumbra_width_range = NoVal) =>
      \A i \in 1 .. Len(lesions) :
        lesions[i].r_core > 0 /\ lesions[i].w_penumbra > 0

\* a pixel of intensity > 20, and one far enough from every accepted center
VesselLikely(p) == M.px[p] > 20
Separated(p) ==
    \A i \in 1 .. Len(centers) :
        \/ par.min_lesion_dist <= 0
        \/ Dist2(p, centers[i]) >= par.min_lesion_dist * par.min_lesion_dist

C13_First ==
    gpc = "first" =>
      /\ Len(centers') = 1 /\ gpc' # "fallback"
      /\ (\E p \in Px : VesselLikely(p)) => (centers'[1] \in Px /\ VesselLikely(centers'[1]))
C13_Next ==
    gpc = "next" =>
      IF \E p \in Px : VesselLikely(p) /\ Separated(p)
      THEN /\ gpc' # "fallback"
           /\ Len(centers') = Len(centers) + 1
           /\ SubSeq(centers', 1, Len(centers)) = centers
           /\ centers'[Len(centers')] \in Px
           /\ VesselLikely(centers'[Len(centers')])
           /\ Separated(centers'[Len(centers')])
      ELSE gpc' = "fallback" /\ centers' = centers
C13_Enter == (gpc # "fallback" /\ gpc' = "fallback") => gpc = "next"

\* C13: the first center is a pixel of intensity > 20 whenever the mask has
\* one; each further center is a pixel of intensity > 20 at distance >=
\* min_lesion_dist from every accepted center whenever such a pixel exists, and
\* the draw over the whole raster is entered only when none does.
C13_VesselPreferred == [][C13_First /\ C13_Next /\ C13_Enter]_vars

\* two centers taken from the vessel pixels under a positive separation, and
\* the fallback entered for the third because every vessel pixel is too close
C13_Witness ==
    /\ gpc = "fallback" /\ attempt = 0 /\ Len(centers) = 2
    /\ par.min_lesion_dist = 2
    /\ VesselLikely(centers[1]) /\ VesselLikely(centers[2])
    /\ Dist2(centers[1], centers[2]) >= 4
    /\ \A p \in Px : VesselLikely(p) /\ ~Separated(p)

\* the rasters before the lesion loop, and one iteration of the loop for the
\* lesion of index i with the noise drawn for it
BeforeLesions == [so2 |-> [p \in Px |-> Baseline(p)], lab |-> [p \in Px |-> 1]]
WithLesion(st, i) ==
    [so2 |-> [p \in Px |->
                IF Affected(p, lesions[i])
                THEN MergeSo2(st.so2[p], CandSo2(p, i))
                ELSE st.so2[p]],
     lab |-> [p \in Px |-> MergeLabel(st.lab[p], p, lesions[i])]]
RECURSIVE AppliedIn(_, _)
AppliedIn(order, st) ==
    IF order = <<>> THEN st
    ELSE AppliedIn(Tail(order), WithLesion(st, Head(order)))
Orders(n) == {o \in [1 .. n -> 1 .. n] : \A i, j \in 1 .. n : i # j => o[i] # o[j]}

\* C14: for the baseline and the lesions of a call (centers, radii, widths,
\* core values and noise values fixed), the accumulation loop run over the
\* lesions in any order gives the signal raster and the label raster the call
\* computed.
C14_OrderIndependent ==
    gpc = "post" =>
      \A o \in Orders(Len(lesions)) :
        AppliedIn(o, BeforeLesions) = [so2 |-> final_so2_map, lab |-> final_label_map]

\* noise on, two lesions sharing a pixel that is in the core of the first and
\* the penumbra of the second, where their candidate signals differ
C14_Witness ==
    /\ gpc = "post" /\ seed = 1 /\ Len(lesions) = 2
    /\ \E p \in Px :
         /\ InCore(p, lesions[1]) /\ InPenumbra(p, lesions[2])
         /\ CandSo2(p, 1) # CandSo2(p, 2)
         /\ AppliedIn(<<2, 1>>, BeforeLesions).so2[p] = final_so2_map[p]
         /\ AppliedIn(<<2, 1>>, BeforeLesions).lab[p] = 3

====
